---------------------------- MODULE Spec2Model ----------------------------
(***************************************************************************)
(* MLOps-Project-Generator: the three entry points of the repository,      *)
(*   - generator/cli.py      init       (interactive flow),                *)
(*   - web_ui/api/generate.py handler.do_POST (POST generate),             *)
(*   - web_ui/api/options.py  handler.do_GET  (GET options),               *)
(* as a state machine.  A run executes one of the three programs (the CLI  *)
(* is its own process, each api file is its own serverless function).      *)
(* do_POST is modelled statement group by statement group, so that several *)
(* requests handled by the same process interleave at every place where    *)
(* they touch the process working directory or the filesystem.             *)
(***************************************************************************)
EXTENDS Naturals, Sequences, FiniteSets

(* ------------------------------ bounds --------------------------------- *)

\* How many distinct names tempfile.mkdtemp and uuid.uuid4 draw from.
MaxNames == 2

Names == 1 .. MaxNames

\* The requests in flight in one process: two handler threads.
Reqs == {1, 2}

(* ----------------------- option domain and choices --------------------- *)

OptionNames ==
    {"framework", "task_type", "experiment_tracking", "orchestration",
     "deployment", "monitoring"}

\* The option domain table the validator accepts.
OptionDomain ==
    [framework           |-> {"sklearn", "pytorch", "tensorflow"},
     task_type           |-> {"classification", "regression", "timeseries"},
     experiment_tracking |-> {"mlflow", "wandb", "none"},
     orchestration       |-> {"airflow", "kubeflow", "none"},
     deployment          |-> {"fastapi", "docker", "kubernetes"},
     monitoring          |-> {"evidently", "custom", "none"}]

RequiredKeys ==
    {"project_name", "framework", "task_type", "experiment_tracking",
     "deployment"}

\* Characters that cannot be part of a directory name.
UnsafeChars == {"/", "\\", ":", "*", "?"}

\* project_name is free text, kept as its sequence of characters.
ProjectNameOk(name) ==
    /\ Len(name) > 0
    /\ \A i \in 1 .. Len(name) : name[i] \notin UnsafeChars

\* validate_choices(choices) returns normally iff this holds, and raises
\* otherwise.  It has no side effect.
validate_choices(choices) ==
    /\ RequiredKeys \subseteq DOMAIN choices
    /\ \A k \in (DOMAIN choices) \cap OptionNames : choices[k] \in OptionDomain[k]
    /\ ProjectNameOk(choices["project_name"])

\* The choice mappings the flows are driven with: two that validate, and one
\* for each way validation fails.
Demo ==
    [project_name |-> <<"d", "e", "m", "o">>, framework |-> "sklearn",
     task_type |-> "classification", experiment_tracking |-> "none",
     deployment |-> "fastapi"]

Full ==
    [project_name |-> <<"x">>, framework |-> "pytorch",
     task_type |-> "timeseries", experiment_tracking |-> "mlflow",
     orchestration |-> "airflow", deployment |-> "kubernetes",
     monitoring |-> "evidently"]

Bogus == [Demo EXCEPT !.framework = "bogus"]

NoName == [Demo EXCEPT !.project_name = <<>>]

Unsafe == [Demo EXCEPT !.project_name = <<"a", "/", "b">>]

Missing ==
    [project_name |-> <<"x">>, framework |-> "sklearn",
     task_type |-> "regression", experiment_tracking |-> "wandb"]

\* No mapping at all: the value of `data` before json.loads has returned.
NoData == <<>>

\* What json.loads hands do_POST.
ChoiceSets == {Demo, Bogus, NoName, Missing}

\* What get_user_choices hands init.
CliChoices == {Demo, Full, Bogus, NoName, Unsafe, Missing}

\* A request body: bytes that json.loads parses to a mapping, or does not.
Bodies ==
    [json : {TRUE}, obj : ChoiceSets] \cup [json : {FALSE}, obj : {NoData}]

(* ------------------------------- paths --------------------------------- *)

\* task_id before line 26 has assigned it.
NoTask == 0

\* The working directory the process is started in.
Root == [kind |-> "start", tmp |-> 0, task |-> NoTask]

NoPath == [kind |-> "none", tmp |-> 0, task |-> NoTask]

\* tempfile.mkdtemp(): a new directory under the system's temp directory.
TempDir(n) == [kind |-> "tmp", tmp |-> n, task |-> NoTask]

\* temp_dir / task_id
ProjectDir(tmp, tid) == [kind |-> "project", tmp |-> tmp.tmp, task |-> tid]

\* temp_dir / f"{task_id}.zip"
ZipPath(tmp, tid) == [kind |-> "zip", tmp |-> tmp.tmp, task |-> tid]

(* ------------------------------- state --------------------------------- *)

VARIABLES
    program,        \* which entry point this process runs: "cli", "generate", "options"
    threaded,       \* the server hands each request to a thread of its own
    \* --- the process and the filesystem (generate)
    cwd,            \* os.getcwd(): the process working directory
    dirs,           \* directories that exist, created by this process
    made,           \* made[r]: the directories and archives request r created
    writes,         \* [by, dir]: request by's renderer wrote files under dir
    issued,         \* the values uuid.uuid4() has returned
    \* --- do_POST, per request
    pc,             \* the statement the request is at
    data,           \* json.loads(post_data)
    task_id,        \* str(uuid.uuid4())
    temp_dir,       \* Path(tempfile.mkdtemp())
    original_cwd,   \* os.getcwd() at line 39
    start_cwd,      \* the working directory when do_POST was entered
    exc,            \* an exception is propagating out of the try of line 40
    log,            \* the calls the request has made, in order
    response,       \* the JSON body written with wfile.write
    \* --- init, cli.py
    cli_pc,         \* the statement init is at
    choices,        \* get_user_choices()
    cli_log,        \* the calls init has made, in order
    cli_writes,     \* the directories the renderer wrote files under
    exit_code       \* <<>> while running, <<n>> once the command has exited with n

genVars ==
    <<cwd, dirs, made, writes, issued, pc, data, task_id, temp_dir, original_cwd,
      start_cwd, exc, log, response>>

cliVars == <<cli_pc, choices, cli_log, cli_writes, exit_code>>

vars == <<program, threaded, genVars, cliVars>>

\* A log entry: the call, whether it returned (ok) or raised, its argument.
Ev(op, ok, arg) == [op |-> op, ok |-> ok, arg |-> arg, code |-> 0]

\* self.send_response(code)
Send(code) == [op |-> "send_response", ok |-> TRUE, arg |-> NoData, code |-> code]

NoResponse == [none |-> TRUE]

\* Lines 57-62.
SuccessResponse(tid) ==
    [task_id |-> tid, status |-> "completed",
     message |-> "Project generated successfully",
     download_url |-> <<"/api/download?task_id=", tid>>]

\* Lines 75 and 83: {"error": f"...: {str(e)}"}.
ErrorResponse(prefix) == [error |-> prefix]

IsStatus(e) == e.op = "send_response"

\* The status lines the request has sent, in order.
Statuses(r) == SelectSeq(log[r], IsStatus)

GenInit ==
    /\ cwd = Root
    /\ dirs = {}
    /\ made = [r \in Reqs |-> {}]
    /\ writes = {}
    /\ issued = {}
    /\ pc = [r \in Reqs |-> "idle"]
    /\ data = [r \in Reqs |-> NoData]
    /\ task_id = [r \in Reqs |-> NoTask]
    /\ temp_dir = [r \in Reqs |-> NoPath]
    /\ original_cwd = [r \in Reqs |-> NoPath]
    /\ start_cwd = [r \in Reqs |-> NoPath]
    /\ exc = [r \in Reqs |-> FALSE]
    /\ log = [r \in Reqs |-> <<>>]
    /\ response = [r \in Reqs |-> NoResponse]

CliInit ==
    /\ cli_pc = "banner"
    /\ choices = NoData
    /\ cli_log = <<>>
    /\ cli_writes = {}
    /\ exit_code = <<>>

Init ==
    /\ program \in {"cli", "generate", "options"}
    /\ threaded \in BOOLEAN
    /\ GenInit
    /\ CliInit

\* The requests do_POST has been entered for and has not left.
InFlight == {r \in Reqs : pc[r] \notin {"idle", "done", "raised"}}

\* The request moves to statement `to`, having made the calls `evs`.
Goto(r, to, evs) ==
    /\ pc' = [pc EXCEPT ![r] = to]
    /\ log' = [log EXCEPT ![r] = @ \o evs]

(* ------------------------ do_POST, generate.py ------------------------- *)

\* Receive with the temporary directory made on entry, before the body is
\* validated.
ReceiveMakesTemp(r, body) ==
    /\ program = "generate"
    /\ pc[r] = "idle"
    /\ threaded \/ InFlight = {}
    /\ start_cwd' = [start_cwd EXCEPT ![r] = cwd]
    /\ \E n \in Names :
         /\ TempDir(n) \notin dirs
         /\ dirs' = dirs \cup {TempDir(n)}
         /\ made' = [made EXCEPT ![r] = @ \cup {TempDir(n)}]
    /\ IF body.json
       THEN /\ data' = [data EXCEPT ![r] = body.obj]
            /\ Goto(r, "validate", <<Ev("json.loads", TRUE, NoData)>>)
       ELSE /\ data' = data
            /\ Goto(r, "except400", <<Ev("json.loads", FALSE, NoData)>>)
    /\ UNCHANGED <<program, threaded, cwd, writes, issued, task_id, temp_dir,
                   original_cwd, exc, response, cliVars>>

\* Lines 12-16: the request arrives; read and parse the body.  json.loads
\* raises on a body that is not JSON, which the except of line 78 catches.
Receive(r, body) ==
    /\ program = "generate"
    /\ pc[r] = "idle"
    /\ threaded \/ InFlight = {}
    /\ start_cwd' = [start_cwd EXCEPT ![r] = cwd]
    /\ IF body.json
       THEN /\ data' = [data EXCEPT ![r] = body.obj]
            /\ Goto(r, "validate", <<Ev("json.loads", TRUE, NoData)>>)
       ELSE /\ data' = data
            /\ Goto(r, "except400", <<Ev("json.loads", FALSE, NoData)>>)
    /\ UNCHANGED <<program, threaded, cwd, dirs, made, writes, issued, task_id,
                   temp_dir, original_cwd, exc, response, cliVars>>

\* Validate with the exception of validate_choices swallowed.
ValidateIgnored(r) ==
    /\ pc[r] = "validate"
    /\ Goto(r, "uuid", <<Ev("validate_choices", validate_choices(data[r]), data[r])>>)
    /\ UNCHANGED <<program, threaded, cwd, dirs, made, writes, issued, data,
                   task_id, temp_dir, original_cwd, start_cwd, exc, response,
                   cliVars>>

\* Lines 19-23: validate_choices(data); a raise goes to the except of line 78.
Validate(r) ==
    /\ pc[r] = "validate"
    /\ IF validate_choices(data[r])
       THEN Goto(r, "uuid", <<Ev("validate_choices", TRUE, data[r])>>)
       ELSE Goto(r, "except400", <<Ev("validate_choices", FALSE, data[r])>>)
    /\ UNCHANGED <<program, threaded, cwd, dirs, made, writes, issued, data, task_id,
                   temp_dir, original_cwd, start_cwd, exc, response, cliVars>>

\* Line 26: task_id = str(uuid.uuid4()), a value never returned before.
NewTaskId(r) ==
    /\ pc[r] = "uuid"
    /\ \E t \in Names \ issued :
         /\ task_id' = [task_id EXCEPT ![r] = t]
         /\ issued' = issued \cup {t}
    /\ Goto(r, "mkdtemp", <<Ev("uuid4", TRUE, NoData)>>)
    /\ UNCHANGED <<program, threaded, cwd, dirs, made, writes, data, temp_dir,
                   original_cwd, start_cwd, exc, response, cliVars>>

\* Line 34: temp_dir = Path(tempfile.mkdtemp()), a directory that did not
\* exist; mkdtemp raises when the temp directory cannot be written.
MkDTemp(r) ==
    /\ pc[r] = "mkdtemp"
    /\ \/ \E n \in Names :
            /\ TempDir(n) \notin dirs
            /\ temp_dir' = [temp_dir EXCEPT ![r] = TempDir(n)]
            /\ dirs' = dirs \cup {TempDir(n)}
            /\ made' = [made EXCEPT ![r] = @ \cup {TempDir(n)}]
            /\ Goto(r, "mkdir", <<Ev("mkdtemp", TRUE, NoData)>>)
       \/ /\ Goto(r, "except500", <<Ev("mkdtemp", FALSE, NoData)>>)
          /\ UNCHANGED <<temp_dir, dirs, made>>
    /\ UNCHANGED <<program, threaded, cwd, writes, issued, data, task_id, original_cwd,
                   start_cwd, exc, response, cliVars>>

\* Lines 35-36: project_dir = temp_dir / task_id; project_dir.mkdir(exist_ok=True).
MkProjectDir(r) ==
    /\ pc[r] = "mkdir"
    /\ LET project_dir == ProjectDir(temp_dir[r], task_id[r]) IN
       \/ /\ dirs' = dirs \cup {project_dir}
          /\ made' = [made EXCEPT ![r] = @ \cup ({project_dir} \ dirs)]
          /\ Goto(r, "getcwd", <<Ev("mkdir", TRUE, NoData)>>)
       \/ /\ Goto(r, "except500", <<Ev("mkdir", FALSE, NoData)>>)
          /\ UNCHANGED <<dirs, made>>
    /\ UNCHANGED <<program, threaded, cwd, writes, issued, data, task_id, temp_dir,
                   original_cwd, start_cwd, exc, response, cliVars>>

\* Line 39: original_cwd = os.getcwd().
GetCwd(r) ==
    /\ pc[r] = "getcwd"
    /\ original_cwd' = [original_cwd EXCEPT ![r] = cwd]
    /\ Goto(r, "chdir", <<Ev("getcwd", TRUE, NoData)>>)
    /\ UNCHANGED <<program, threaded, cwd, dirs, made, writes, issued, data, task_id,
                   temp_dir, start_cwd, exc, response, cliVars>>

\* Lines 40-41: os.chdir(project_dir) changes the working directory of the
\* process; a raise runs the finally of line 44.
ChDir(r) ==
    /\ pc[r] = "chdir"
    /\ \/ /\ cwd' = ProjectDir(temp_dir[r], task_id[r])
          /\ exc' = exc
          /\ Goto(r, "render", <<Ev("chdir", TRUE, NoData)>>)
       \/ /\ cwd' = cwd
          /\ exc' = [exc EXCEPT ![r] = TRUE]
          /\ Goto(r, "finally", <<Ev("chdir", FALSE, NoData)>>)
    /\ UNCHANGED <<program, threaded, dirs, made, writes, issued, data, task_id, temp_dir,
                   original_cwd, start_cwd, response, cliVars>>

\* ProjectRenderer(choices).generate_project() is handed no target directory:
\* the directory it writes the project under is the working directory of the
\* process at the time it runs.
generate_project == cwd

\* Lines 42-43: renderer = ProjectRenderer(data); renderer.generate_project().
\* The constructor may raise; so may generate_project, before or after it
\* has written files.
Render(r) ==
    /\ pc[r] = "render"
    /\ \/ /\ writes' = writes \cup {[by |-> r, dir |-> generate_project]}
          /\ exc' = exc
          /\ Goto(r, "finally", <<Ev("ProjectRenderer", TRUE, data[r]),
                                  Ev("generate_project", TRUE, NoData)>>)
       \/ /\ writes' \in {writes, writes \cup {[by |-> r, dir |-> generate_project]}}
          /\ exc' = [exc EXCEPT ![r] = TRUE]
          /\ Goto(r, "finally", <<Ev("ProjectRenderer", TRUE, data[r]),
                                  Ev("generate_project", FALSE, NoData)>>)
       \/ /\ writes' = writes
          /\ exc' = [exc EXCEPT ![r] = TRUE]
          /\ Goto(r, "finally", <<Ev("ProjectRenderer", FALSE, data[r])>>)
    /\ UNCHANGED <<program, threaded, cwd, dirs, made, issued, data, task_id, temp_dir,
                   original_cwd, start_cwd, response, cliVars>>

\* Finally with the propagating exception dropped: the archive and the 200
\* follow a failed rendering.
FinallySwallows(r) ==
    /\ pc[r] = "finally"
    /\ cwd' = original_cwd[r]
    /\ exc' = [exc EXCEPT ![r] = FALSE]
    /\ Goto(r, "zip", <<Ev("chdir_back", TRUE, NoData)>>)
    /\ UNCHANGED <<program, threaded, dirs, made, writes, issued, data, task_id,
                   temp_dir, original_cwd, start_cwd, response, cliVars>>

\* Finally without the try/finally: the working directory is restored only
\* when nothing raised.
FinallyOnSuccessOnly(r) ==
    /\ pc[r] = "finally"
    /\ cwd' = IF exc[r] THEN cwd ELSE original_cwd[r]
    /\ exc' = [exc EXCEPT ![r] = FALSE]
    /\ Goto(r, IF exc[r] THEN "except500" ELSE "zip",
            <<Ev("chdir_back", ~exc[r], NoData)>>)
    /\ UNCHANGED <<program, threaded, dirs, made, writes, issued, data, task_id,
                   temp_dir, original_cwd, start_cwd, response, cliVars>>

\* Lines 44-45: finally: os.chdir(original_cwd); a propagating exception then
\* reaches the except of line 70.
Finally(r) ==
    /\ pc[r] = "finally"
    /\ cwd' = original_cwd[r]
    /\ exc' = [exc EXCEPT ![r] = FALSE]
    /\ Goto(r, IF exc[r] THEN "except500" ELSE "zip",
            <<Ev("chdir_back", TRUE, NoData)>>)
    /\ UNCHANGED <<program, threaded, dirs, made, writes, issued, data, task_id, temp_dir,
                   original_cwd, start_cwd, response, cliVars>>

\* Lines 47-53: write temp_dir/<task_id>.zip from the files of project_dir.
\* A raise may leave the archive file behind.
Zip(r) ==
    /\ pc[r] = "zip"
    /\ LET zip_path == ZipPath(temp_dir[r], task_id[r]) IN
       \/ /\ made' = [made EXCEPT ![r] = @ \cup {zip_path}]
          /\ Goto(r, "respond200", <<Ev("zip", TRUE, NoData)>>)
       \/ /\ made' \in {made, [made EXCEPT ![r] = @ \cup {zip_path}]}
          /\ Goto(r, "except500", <<Ev("zip", FALSE, NoData)>>)
    /\ UNCHANGED <<program, threaded, cwd, dirs, writes, issued, data, task_id, temp_dir,
                   original_cwd, start_cwd, exc, response, cliVars>>

\* Lines 57-68: send_response(200), the headers, then the body.  Writing to
\* the client raises when the connection is gone; line 68 is inside the try
\* of line 30, so the except of line 70 catches it.
Respond200(r) ==
    /\ pc[r] = "respond200"
    /\ \/ /\ response' = [response EXCEPT ![r] = SuccessResponse(task_id[r])]
          /\ Goto(r, "done", <<Send(200), Ev("wfile.write", TRUE, NoData)>>)
       \/ /\ response' = response
          /\ Goto(r, "except500", <<Send(200), Ev("wfile.write", FALSE, NoData)>>)
    /\ UNCHANGED <<program, threaded, cwd, dirs, made, writes, issued, data, task_id,
                   temp_dir, original_cwd, start_cwd, exc, cliVars>>

\* Lines 70-76: except Exception: send_response(500) and the error body.  The
\* handler is itself inside the try of line 13: a raise here reaches line 78.
Except500(r) ==
    /\ pc[r] = "except500"
    /\ \/ /\ response' = [response EXCEPT ![r] = ErrorResponse("Generation failed")]
          /\ Goto(r, "done", <<Send(500), Ev("wfile.write", TRUE, NoData)>>)
       \/ /\ response' = response
          /\ Goto(r, "except400", <<Send(500), Ev("wfile.write", FALSE, NoData)>>)
    /\ UNCHANGED <<program, threaded, cwd, dirs, made, writes, issued, data, task_id,
                   temp_dir, original_cwd, start_cwd, exc, cliVars>>

\* Except400 answering 500, as the inner handler does.
Except400Sends500(r) ==
    /\ pc[r] = "except400"
    /\ \/ /\ response' = [response EXCEPT ![r] = ErrorResponse("Invalid request")]
          /\ Goto(r, "done", <<Send(500), Ev("wfile.write", TRUE, NoData)>>)
       \/ /\ response' = response
          /\ Goto(r, "raised", <<Send(500), Ev("wfile.write", FALSE, NoData)>>)
    /\ UNCHANGED <<program, threaded, cwd, dirs, made, writes, issued, data,
                   task_id, temp_dir, original_cwd, start_cwd, exc, cliVars>>

\* Lines 78-84: except Exception: send_response(400) and the error body.  A
\* raise here leaves do_POST.
Except400(r) ==
    /\ pc[r] = "except400"
    /\ \/ /\ response' = [response EXCEPT ![r] = ErrorResponse("Invalid request")]
          /\ Goto(r, "done", <<Send(400), Ev("wfile.write", TRUE, NoData)>>)
       \/ /\ response' = response
          /\ Goto(r, "raised", <<Send(400), Ev("wfile.write", FALSE, NoData)>>)
    /\ UNCHANGED <<program, threaded, cwd, dirs, made, writes, issued, data, task_id,
                   temp_dir, original_cwd, start_cwd, exc, cliVars>>

(* ------------------------- do_GET, options.py -------------------------- *)

Opt(value, label, description) ==
    [value |-> value, label |-> label, description |-> description]

\* The table with one value misspelt.
optionsTypo ==
    [framework |->
        <<Opt("sklearn", "Scikit-learn", "Tabular data, Classic ML"),
          Opt("pytorch", "PyTorch", "Deep learning, Research"),
          Opt("tensorflow", "TensorFlow", "Production, Enterprise")>>,
     task_type |->
        <<Opt("classification", "Classification", "Predict categories"),
          Opt("regression", "Regression", "Predict continuous values"),
          Opt("time_series", "Time Series", "Time-based predictions")>>,
     experiment_tracking |->
        <<Opt("mlflow", "MLflow", "Open-source ML tracking"),
          Opt("wandb", "W&B", "Cloud-based experiment tracking"),
          Opt("none", "None", "No experiment tracking")>>,
     orchestration |->
        <<Opt("airflow", "Airflow", "Workflow orchestration"),
          Opt("kubeflow", "Kubeflow", "Kubernetes-native ML pipelines"),
          Opt("none", "None", "No orchestration")>>,
     deployment |->
        <<Opt("fastapi", "FastAPI", "REST API deployment"),
          Opt("docker", "Docker", "Container deployment"),
          Opt("kubernetes", "Kubernetes", "Production-scale deployment")>>,
     monitoring |->
        <<Opt("evidently", "Evidently", "Automated ML monitoring"),
          Opt("custom", "Custom", "Custom monitoring solution"),
          Opt("none", "None", "No monitoring")>>]

\* Lines 11-42: the table do_GET serialises.
options ==
    [framework |->
        <<Opt("sklearn", "Scikit-learn", "Tabular data, Classic ML"),
          Opt("pytorch", "PyTorch", "Deep learning, Research"),
          Opt("tensorflow", "TensorFlow", "Production, Enterprise")>>,
     task_type |->
        <<Opt("classification", "Classification", "Predict categories"),
          Opt("regression", "Regression", "Predict continuous values"),
          Opt("timeseries", "Time Series", "Time-based predictions")>>,
     experiment_tracking |->
        <<Opt("mlflow", "MLflow", "Open-source ML tracking"),
          Opt("wandb", "W&B", "Cloud-based experiment tracking"),
          Opt("none", "None", "No experiment tracking")>>,
     orchestration |->
        <<Opt("airflow", "Airflow", "Workflow orchestration"),
          Opt("kubeflow", "Kubeflow", "Kubernetes-native ML pipelines"),
          Opt("none", "None", "No orchestration")>>,
     deployment |->
        <<Opt("fastapi", "FastAPI", "REST API deployment"),
          Opt("docker", "Docker", "Container deployment"),
          Opt("kubernetes", "Kubernetes", "Production-scale deployment")>>,
     monitoring |->
        <<Opt("evidently", "Evidently", "Automated ML monitoring"),
          Opt("custom", "Custom", "Custom monitoring solution"),
          Opt("none", "None", "No monitoring")>>]

\* Lines 5-45: send_response(200), the headers, then json.dumps(options).
\* Writing to the client raises when the connection is gone.
do_GET(r) ==
    /\ program = "options"
    /\ pc[r] = "idle"
    /\ \/ /\ response' = [response EXCEPT ![r] = options]
          /\ Goto(r, "done", <<Send(200), Ev("wfile.write", TRUE, NoData)>>)
       \/ /\ response' = response
          /\ Goto(r, "raised", <<Send(200), Ev("wfile.write", FALSE, NoData)>>)
    /\ UNCHANGED <<program, threaded, cwd, dirs, made, writes, issued, data, task_id,
                   temp_dir, original_cwd, start_cwd, exc, cliVars>>

(* ----------------------------- init, cli.py ---------------------------- *)

\* init moves to statement `to`, having made the calls `evs`.
CliGoto(to, evs) ==
    /\ cli_pc' = to
    /\ cli_log' = cli_log \o evs

\* Lines 32-63: print the banner.
Banner ==
    /\ program = "cli"
    /\ cli_pc = "banner"
    /\ CliGoto("prompt", <<Ev("print_banner", TRUE, NoData)>>)
    /\ UNCHANGED <<program, threaded, genVars, choices, cli_writes, exit_code>>

\* Line 67: choices = get_user_choices(); a raise goes to the except of
\* line 122.
GetUserChoices ==
    /\ cli_pc = "prompt"
    /\ \/ \E c \in CliChoices :
            /\ choices' = c
            /\ CliGoto("validate", <<Ev("get_user_choices", TRUE, NoData)>>)
       \/ /\ choices' = choices
          /\ CliGoto("except", <<Ev("get_user_choices", FALSE, NoData)>>)
    /\ UNCHANGED <<program, threaded, genVars, cli_writes, exit_code>>

\* Line 70: validate_choices(choices).
CliValidate ==
    /\ cli_pc = "validate"
    /\ IF validate_choices(choices)
       THEN CliGoto("render", <<Ev("validate_choices", TRUE, choices)>>)
       ELSE CliGoto("except", <<Ev("validate_choices", FALSE, choices)>>)
    /\ UNCHANGED <<program, threaded, genVars, choices, cli_writes, exit_code>>

\* Lines 73-74: renderer = ProjectRenderer(choices); renderer.generate_project().
\* The renderer writes under the working directory.
CliRender ==
    /\ cli_pc = "render"
    /\ \/ /\ cli_writes' = cli_writes \cup {generate_project}
          /\ CliGoto("summary", <<Ev("ProjectRenderer", TRUE, choices),
                                  Ev("generate_project", TRUE, NoData)>>)
       \/ /\ cli_writes' \in {cli_writes, cli_writes \cup {generate_project}}
          /\ CliGoto("except", <<Ev("ProjectRenderer", TRUE, choices),
                                 Ev("generate_project", FALSE, NoData)>>)
       \/ /\ cli_writes' = cli_writes
          /\ CliGoto("except", <<Ev("ProjectRenderer", FALSE, choices)>>)
    /\ UNCHANGED <<program, threaded, genVars, choices, exit_code>>

\* Lines 77-99: print the success panel with the project summary.
Summary ==
    /\ cli_pc = "summary"
    /\ CliGoto("next_steps", <<Ev("print_success", TRUE, NoData)>>)
    /\ UNCHANGED <<program, threaded, genVars, choices, cli_writes, exit_code>>

\* Lines 102-120: print the next steps; init returns and the command exits
\* with code 0.
NextSteps ==
    /\ cli_pc = "next_steps"
    /\ CliGoto("exited", <<Ev("print_next_steps", TRUE, NoData)>>)
    /\ exit_code' = <<0>>
    /\ UNCHANGED <<program, threaded, genVars, choices, cli_writes>>

\* CliExcept without the raise typer.Exit(1): init returns, exit code 0.
CliExceptReturns ==
    /\ cli_pc = "except"
    /\ CliGoto("exited", <<Ev("print_error", TRUE, NoData)>>)
    /\ exit_code' = <<0>>
    /\ UNCHANGED <<program, threaded, genVars, choices, cli_writes>>

\* Lines 122-126: except Exception: print the error panel; raise typer.Exit(1).
CliExcept ==
    /\ cli_pc = "except"
    /\ CliGoto("exited", <<Ev("print_error", TRUE, NoData)>>)
    /\ exit_code' = <<1>>
    /\ UNCHANGED <<program, threaded, genVars, choices, cli_writes>>

init ==
    \/ Banner
    \/ GetUserChoices
    \/ CliValidate
    \/ CliRender
    \/ Summary
    \/ NextSteps
    \/ CliExcept

do_POST(r) ==
    \/ \E body \in Bodies : Receive(r, body)
    \/ Validate(r)
    \/ NewTaskId(r)
    \/ MkDTemp(r)
    \/ MkProjectDir(r)
    \/ GetCwd(r)
    \/ ChDir(r)
    \/ Render(r)
    \/ Finally(r)
    \/ Zip(r)
    \/ Respond200(r)
    \/ Except500(r)
    \/ Except400(r)

Next ==
    \/ \E r \in Reqs : do_POST(r)
    \/ \E r \in Reqs : do_GET(r)
    \/ init

Spec == Init /\ [][Next]_vars

\* One request at a time: the server takes a request only when no other is
\* in flight.
InitSerial == Init /\ ~threaded

SpecSerial == InitSerial /\ [][Next]_vars

(* --------------------------- reading the logs -------------------------- *)

Raised(L, op) == \E i \in DOMAIN L : L[i].op = op /\ ~L[i].ok

Returned(L, op) == \E i \in DOMAIN L : L[i].op = op /\ L[i].ok

Calls(L, op) == {i \in DOMAIN L : L[i].op = op}

\* The status codes the request has passed to send_response.
SentCodes(r) == {log[r][i].code : i \in Calls(log[r], "send_response")}

Finished(r) == pc[r] \in {"done", "raised"}

\* In the log L, the renderer is constructed and run only after
\* validate_choices has returned on the mapping the renderer is given, and
\* not at all once validate_choices has raised.
RenderedOnlyValidated(L) ==
    /\ \A i \in Calls(L, "ProjectRenderer") :
          \E j \in Calls(L, "validate_choices") :
             j < i /\ L[j].ok /\ L[j].arg = L[i].arg
    /\ \A i \in Calls(L, "generate_project") :
          i > 1 /\ L[i - 1].op = "ProjectRenderer" /\ L[i - 1].ok
    /\ Raised(L, "validate_choices") =>
          Calls(L, "ProjectRenderer") \cup Calls(L, "generate_project") = {}

(* -------------------------------- claims ------------------------------- *)

\* C1: in init and in do_POST, ProjectRenderer.generate_project is invoked
\* only after validate_choices has returned without raising on the same
\* choice mapping in that run or request; if validate_choices raises, the
\* renderer is neither constructed nor invoked.
C1_ValidateBeforeRender ==
    /\ \A r \in Reqs : RenderedOnlyValidated(log[r])
    /\ RenderedOnlyValidated(cli_log)

C1_Witness ==
    \E r, q \in Reqs :
       /\ Returned(log[r], "generate_project")
       /\ Raised(log[q], "validate_choices") /\ Finished(q)

\* C2: a POST generate request whose body fails validate_choices sends status
\* 400 and writes a JSON body with an error field, and sends neither 200 nor
\* 500.
C2_ValidationFailure400 ==
    \A r \in Reqs :
       Raised(log[r], "validate_choices") =>
          /\ SentCodes(r) \subseteq {400}
          /\ Finished(r) => Statuses(r) = <<Send(400)>>
          /\ pc[r] = "done" => DOMAIN response[r] = {"error"}

C2_Witness ==
    \E r \in Reqs :
       /\ Raised(log[r], "validate_choices")
       /\ pc[r] = "done"
       /\ response[r] = ErrorResponse("Invalid request")

\* The request passed validation and its rendering or archiving raised.
RenderOrArchiveFailed(r) ==
    /\ Returned(log[r], "validate_choices")
    /\ \/ Raised(log[r], "ProjectRenderer")
       \/ Raised(log[r], "generate_project")
       \/ Raised(log[r], "zip")

\* C3: a POST generate request that passes validation but whose rendering or
\* archiving fails sends status 500 and a JSON body with an error field, and
\* sends neither 200 nor 400.
C3_RenderFailure500 ==
    \A r \in Reqs :
       RenderOrArchiveFailed(r) =>
          /\ SentCodes(r) \subseteq {500}
          /\ Finished(r) => Statuses(r) = <<Send(500)>>
          /\ pc[r] = "done" => DOMAIN response[r] = {"error"}

\* C4: a ValidationError leaves no filesystem state behind: in do_POST, when
\* validate_choices raises, the request has created no temporary directory,
\* project directory or archive, its renderer has written nothing and it has
\* not changed the working directory; in init, the renderer has written
\* nothing.
C4_ValidationLeavesNothing ==
    /\ \A r \in Reqs :
          Raised(log[r], "validate_choices") =>
             /\ made[r] = {}
             /\ temp_dir[r] = NoPath
             /\ \A w \in writes : w.by # r
             /\ Calls(log[r], "chdir") \cup Calls(log[r], "chdir_back") = {}
    /\ Raised(cli_log, "validate_choices") => cli_writes = {}

C4_Witness ==
    \E r, q \in Reqs :
       /\ Raised(log[r], "validate_choices") /\ Finished(r)
       /\ made[q] # {}

\* C5: for any interleaving of two in-flight POST generate requests in one
\* process, each request renders into its own uniquely named project
\* directory temp_dir/task_id, and no request's renderer writes into a
\* directory created by the other request.
C5_RendersIntoOwnDirectory ==
    /\ \A r, q \in Reqs :
          r # q => made[r] \cap made[q] = {}
    /\ \A w \in writes :
          /\ w.dir = ProjectDir(temp_dir[w.by], task_id[w.by])
          /\ \A q \in Reqs \ {w.by} : w.dir \notin made[q]

\* The request has written the success body of lines 57-62.
Wrote200(r) == "task_id" \in DOMAIN response[r]

\* C6: a 200 is sent only after validation, rendering and archiving have all
\* completed without error in that request, and the body has exactly the
\* fields task_id, status, message and download_url, with status "completed"
\* and download_url embedding the task_id that names the project directory
\* and the archive.
C6_SuccessOnlyAfterAll ==
    \A r \in Reqs :
       program = "generate" =>
       /\ \A i \in Calls(log[r], "send_response") :
             log[r][i].code = 200 =>
                /\ \A j \in 1 .. (i - 1) : log[r][j].ok
                /\ \A op \in {"validate_choices", "generate_project", "zip"} :
                      \E j \in 1 .. (i - 1) : log[r][j].op = op
       /\ Wrote200(r) =>
             /\ 200 \in SentCodes(r)
             /\ DOMAIN response[r] = {"task_id", "status", "message", "download_url"}
             /\ response[r].status = "completed"
             /\ response[r].download_url = <<"/api/download?task_id=", response[r].task_id>>
             /\ ProjectDir(temp_dir[r], response[r].task_id) \in made[r]
             /\ ZipPath(temp_dir[r], response[r].task_id) \in made[r]

C6_Witness ==
    \E r \in Reqs : program = "generate" /\ pc[r] = "done" /\ Wrote200(r)

\* C7: GET options returns, for exactly the six options of the option domain
\* table, a list of value/label/description triples whose values are exactly
\* the allowed values of that option; the data is the same for every request.
C7_OptionsMatchDomain ==
    \A r \in Reqs :
       (program = "options" /\ pc[r] = "done") =>
          /\ DOMAIN response[r] = OptionNames
          /\ \A k \in OptionNames :
                /\ {response[r][k][i].value : i \in DOMAIN response[r][k]}
                      = OptionDomain[k]
                /\ \A i \in DOMAIN response[r][k] :
                      DOMAIN response[r][k][i] = {"value", "label", "description"}
          /\ \A q \in Reqs : pc[q] = "done" => response[q] = response[r]

C7_Witness ==
    program = "options" /\ \A r \in Reqs : pc[r] = "done"

\* C8: in the interactive flow, when generate_project fails, init ends with
\* exit code 1, does not invoke generate_project a second time and prints
\* neither the success summary nor the next steps.
C8_CliRenderFailureExits1 ==
    Raised(cli_log, "generate_project") =>
       /\ Cardinality(Calls(cli_log, "generate_project")) = 1
       /\ Calls(cli_log, "print_success") \cup Calls(cli_log, "print_next_steps") = {}
       /\ cli_pc \in {"except", "exited"}
       /\ cli_pc = "exited" => exit_code = <<1>>

C8_Witness ==
    /\ Raised(cli_log, "generate_project")
    /\ cli_pc = "exited"
    /\ cli_writes # {}

\* C9: every POST generate request emits exactly one status line, whatever
\* step fails, a failure while writing the response included: no second
\* status is sent once one has been sent.
C9_ExactlyOneStatus ==
    \A r \in Reqs :
       program = "generate" =>
          /\ Len(Statuses(r)) <= 1
          /\ Finished(r) => Len(Statuses(r)) = 1

\* C10: with one request at a time, once do_POST has returned (and until the
\* next request is taken) the working directory is what it was when the
\* request started, whether generate_project succeeded or raised; during
\* the request it differs from it only between the chdir of line 41 and the
\* chdir of line 45, while the renderer runs.
C10_CwdRestored ==
    \A r \in Reqs :
       program = "generate" =>
       /\ (Finished(r) /\ InFlight = {}) => cwd = start_cwd[r]
       /\ (r \in InFlight /\ cwd # start_cwd[r]) => pc[r] \in {"render", "finally"}

C10_Witness ==
    \E r, q \in Reqs :
       /\ Finished(r) /\ Raised(log[r], "generate_project")
       /\ Finished(q) /\ Returned(log[q], "generate_project")

=============================================================================
